---- MODULE Spec2Model ----
(***************************************************************************)
(* react-deep-state: the state container (ExtendedStateManager) and the    *)
(* consumer-side synchronizer (useExtendedState) as state machines.        *)
(***************************************************************************)
EXTENDS Integers, Sequences, FiniteSets, TLC

VARIABLES
    state,        \* ExtendedStateManager.state: the current snapshot object
    subscribers,  \* ExtendedStateManager.subscribers: a Set, kept in insertion order
    listeners,    \* the closures made by subscribe(), by creation order
    hook,         \* one useExtendedState binding site and its component
    last          \* what the latest operation did (observation only)

vars == <<state, subscribers, listeners, hook, last>>

\* -------------------------------------------------------------- bounds
MaxMutations == 3
MaxSubscriptions == 1
MaxWindowMutations == 3
MaxPassMutations == 2
MaxPassListeners == 2
\* setState calls made in a tree with a Provider, and renders of the Provider
\* with new props
MaxTreeMutations == 3
MaxPropChanges == 2

\* -------------------------------------------------------------- values
\* type State = Readonly<{ a: string | null; b: string | null }> of the tests
Fields == {"a", "b"}
Values == {"null", "A"}

\* A snapshot is an object: its identity (id) and its own fields (val).
\* Partial<S>: any subset of the fields, each with a value.
Partials == UNION {[D -> Values] : D \in SUBSET Fields}

\* s.f in JavaScript: undefined when the object has no such field
Get(s, f) == IF f \in DOMAIN s.val THEN s.val[f] ELSE "undefined"

\* Faulty variant of spread: the partial's fields are kept only where the state has none
spread_StateWins(s, p) ==
    [f \in (DOMAIN s) \cup (DOMAIN p) |-> IF f \in DOMAIN s THEN s[f] ELSE p[f]]

\* { ...s, ...p }
spread(s, p) ==
    [f \in (DOMAIN s) \cup (DOMAIN p) |-> IF f \in DOMAIN p THEN p[f] ELSE s[f]]

\* -------------------------------------------------------------- filters
\* What a filter call returns: a boolean (comparator) or a hash/key.
Bool(b) == [type |-> "boolean", bool |-> b, hash |-> "-"]
Hash(h) == [type |-> "hash", bool |-> FALSE, hash |-> h]
\* a filter call that does not return: the filter throws
Throw == [type |-> "throw", bool |-> FALSE, hash |-> "-"]

\* The filters given to subscribe() in this model
UserFilters == {"cmpB", "cmpAB", "hashB"}
Comparators == {"cmpB", "cmpAB"}
Hashes == {"hashB"}

\* The selected value of a binding: a primitive, or an object known by identity
Prim(v) == [ref |-> 0, prim |-> v]
Ref(s) == [ref |-> s.id, prim |-> "object"]

\* selector of a binding: (s) => s[id] for the component's id, or (s) => s
selector(key, s) == IF key = "self" THEN Ref(s) ELSE Prim(Get(s, key))

\* A filter is called: filter(x, y). The filters of this model are listed in
\* filterCall below; the hook's rule calls areResultsEqual again on its own filter.
RECURSIVE filterCall(_, _, _)

\* Faulty variant of areResultsEqual: the filter gets (current, previous)
areResultsEqual_Swapped(previous, current, filter) ==
    LET result == filterCall(filter, current, previous)
    IN  IF result.type = "throw"
        THEN [equal |-> FALSE, calls |-> 1, thrown |-> TRUE]
        ELSE IF result.type = "boolean"
        THEN [equal |-> result.bool, calls |-> 1, thrown |-> FALSE]
        ELSE [equal |-> (result = filterCall(filter, previous, current)), calls |-> 2,
              thrown |-> FALSE]

\* Faulty variant of areResultsEqual: the second direction is always evaluated
areResultsEqual_BothWays(previous, current, filter) ==
    LET result == filterCall(filter, previous, current)
        other == filterCall(filter, current, previous)
    IN  IF result.type = "throw"
        THEN [equal |-> FALSE, calls |-> 1, thrown |-> TRUE]
        ELSE IF result.type = "boolean"
        THEN [equal |-> result.bool, calls |-> 2, thrown |-> FALSE]
        ELSE [equal |-> (result = other), calls |-> 2, thrown |-> FALSE]

\* Faulty variant of areResultsEqual: the hash is taken of one side only
areResultsEqual_OneSide(previous, current, filter) ==
    LET result == filterCall(filter, previous, current)
    IN  IF result.type = "throw"
        THEN [equal |-> FALSE, calls |-> 1, thrown |-> TRUE]
        ELSE IF result.type = "boolean"
        THEN [equal |-> result.bool, calls |-> 1, thrown |-> FALSE]
        ELSE [equal |-> (result = filterCall(filter, previous, current)), calls |-> 2,
              thrown |-> FALSE]

\* areResultsEqual(previous, current, filter): the verdict, how many times the
\* filter was called, and whether the filter threw instead of returning
areResultsEqual(previous, current, filter) ==
    LET result == filterCall(filter, previous, current)
    IN  IF result.type = "throw"
        THEN [equal |-> FALSE, calls |-> 1, thrown |-> TRUE]
        ELSE IF result.type = "boolean"
        THEN [equal |-> result.bool, calls |-> 1, thrown |-> FALSE]
        ELSE [equal |-> (result = filterCall(filter, current, previous)), calls |-> 2,
              thrown |-> FALSE]

\* A filter given by the application, as subscribe() and the hook hold it
UserFilter(kind) == [kind |-> kind, key |-> "-", inner |-> "none"]

\* Faulty variant of the hook's rule: every mutation counts as a change
hookRule_Changed(f, previousState, currentState) == FALSE

\* Faulty variant of the hook's rule: the filter is asked even when the selected
\* values are identical
hookRuleEval_NoShortCut(f, previousState, currentState) ==
    LET previous == selector(f.key, previousState)
        current == selector(f.key, currentState)
        verdict == areResultsEqual(current, previous, UserFilter(f.inner))
    IN  IF f.inner = "none"
        THEN [equal |-> (previous = current), calls |-> 0]
        ELSE [equal |-> verdict.equal, calls |-> verdict.calls]

\* The rule useExtendedState hands to manager.subscribe:
\* (previousState, currentState) => { ... }, closing over selector and filter:
\* what it returns, and how many times it called the filter
hookRuleEval(f, previousState, currentState) ==
    LET previous == selector(f.key, previousState)
        current == selector(f.key, currentState)
        verdict == areResultsEqual(current, previous, UserFilter(f.inner))
    IN  IF previous = current
        THEN [equal |-> TRUE, calls |-> 0]
        ELSE IF f.inner = "none"
             THEN [equal |-> FALSE, calls |-> 0]
             ELSE [equal |-> verdict.equal, calls |-> verdict.calls]

hookRule(f, previousState, currentState) ==
    hookRuleEval(f, previousState, currentState).equal

\* Faulty variant of the default filter: equal states are taken for no change
filterCall_DefaultEqual(f, x, y) ==
    CASE f.kind = "default" -> Bool(x.val = y.val)
      [] f.kind = "cmpB" -> Bool(Get(x, "b") = Get(y, "b"))
      [] f.kind = "cmpAB" -> Bool(Get(x, "a") = Get(y, "b"))
      [] f.kind = "cmpWasNull" -> Bool(x.prim = "null")
      [] f.kind = "hashB" -> Hash(Get(x, "b"))
      [] f.kind = "hashV" -> Hash(x)
      [] f.kind = "hashT" -> Hash(CASE x.prim = "A" -> "string"
                                        [] x.prim = "undefined" -> "undefined"
                                        [] OTHER -> "object")
      [] f.kind = "hook" -> Bool(hookRule(f, x, y))
      [] f.kind = "throws" -> Throw

\* filter(x, y):
\*   default  () => false, what subscribe(subscriber) installs
\*   cmpB     (previous, current) => previous.b === current.b
\*   cmpAB    (previous, current) => previous.a === current.b   (not symmetric)
\*   hashB    (state) => state.b
\*   hashV    (v) => v, on selected values
\*   hashT    (v) => typeof v, on selected values
\*   cmpWasNull  (before, after) => before === null, on selected values
\*   hook     the rule of useExtendedState
\*   throws   () => { throw new Error() }
filterCall(f, x, y) ==
    CASE f.kind = "default" -> Bool(FALSE)
      [] f.kind = "cmpB" -> Bool(Get(x, "b") = Get(y, "b"))
      [] f.kind = "cmpAB" -> Bool(Get(x, "a") = Get(y, "b"))
      [] f.kind = "cmpWasNull" -> Bool(x.prim = "null")
      [] f.kind = "hashB" -> Hash(Get(x, "b"))
      [] f.kind = "hashV" -> Hash(x)
      [] f.kind = "hashT" -> Hash(CASE x.prim = "A" -> "string"
                                        [] x.prim = "undefined" -> "undefined"
                                        [] OTHER -> "object")
      [] f.kind = "hook" -> Bool(hookRule(f, x, y))
      [] f.kind = "throws" -> Throw

\* -------------------------------------------------------------- the Set
SetHas(set, x) == \E i \in 1..Len(set) : set[i] = x

\* Faulty variant of Set.prototype.add: the new entry goes first
SetAdd_Front(set, x) == IF SetHas(set, x) THEN set ELSE <<x>> \o set

SetAdd(set, x) == IF SetHas(set, x) THEN set ELSE Append(set, x)
\* Set.prototype.delete replaces the entry by an empty slot, which a forEach in
\* progress passes over; the slots are dropped once no forEach is running
Empty == 0

\* Faulty variant of Set.prototype.delete: nothing is removed
SetDelete_Keep(set, x) == set

\* Faulty variant of Set.prototype.delete: when the entry is absent, the last
\* entry is removed
SetDelete_DropsLast(set, x) ==
    [i \in 1..Len(set) |->
        IF set[i] = x \/ (~SetHas(set, x) /\ i = Len(set)) THEN 0 ELSE set[i]]

SetDelete(set, x) == [i \in 1..Len(set) |-> IF set[i] = x THEN Empty ELSE set[i]]
Compact(set) == SelectSeq(set, LAMBDA y : y # Empty)

\* -------------------------------------------------------------- the hook
\* null, where a snapshot is expected (useRef<S | null>)
Null == [id |-> -1, val |-> <<>>]
NoValue == [ref |-> 0, prim |-> "-"]

\* The Provider above the binding site.
\*   phase               none (not rendered yet), rendered, mounted
\*   ignorePropsChanges  the argument of createExtendedState
\*   mode                'value' in props: "value", or "manager"
\*   prop                the object given as value, or the state of the manager
\*                       given, by the latest render: n tells the objects apart
\*                       (0: the props of the first render)
\*   manager             the manager useMemo holds, by the n of the props it
\*                       was made from
\*   sets                the setState calls the Provider's effect has made
NoProvider ==
    [phase |-> "none", ignorePropsChanges |-> FALSE, mode |-> "value",
     prop |-> [n |-> 0, val |-> <<>>], manager |-> 0, sets |-> 0]

\* a mounted Provider whose props never change
SomeProvider == [NoProvider EXCEPT !.phase = "mounted", !.ignorePropsChanges = TRUE]

\* A binding site that has not rendered yet.
\*   kind, deps, filter  the arguments of useExtendedState at this site
\*   id, nextId          the component's own state the selector closes over
\*   scope               the selector closure held by the memoized updateValue
\*   firstRender         the ref; currentResult, pending: useState and its queue
\*   listener            the closure the subscribe effect registered (0: none)
\*   context             what useContext(Context) gives the component: the manager
\*                       of the enclosing Provider, or null
\*   error               the message of the Error a render threw
\*   invoked             how many times React called a selected function
\*   provider            the Provider above
\*   subscribedTo        the manager a useDeepState binding subscribed to (-1: none)
\*   args                the arguments useExtendedState(...args) was called with
\*   id0, gap, mountedAt, catchUps, renders: history, for the properties
Unbound ==
    [phase |-> "unbound", kind |-> "byId", deps |-> FALSE, filter |-> "none",
     id |-> "a", nextId |-> "a", id0 |-> "a", scope |-> "a",
     firstRender |-> Null, currentResult |-> NoValue, pending |-> <<>>,
     listener |-> 0, gap |-> 0, mountedAt |-> -1,
     catchUps |-> 0, renders |-> 0,
     context |-> "manager", error |-> "", invoked |-> 0,
     provider |-> SomeProvider, subscribedTo |-> -1, args |-> <<>>]

\* the same component rendered with no Provider above it
Outside == [Unbound EXCEPT !.context = "null"]

\* setResult(v): the update is queued and applied by the next render
setResult(h, v) == [h EXCEPT !.pending = Append(@, v)]

\* functions held in the state (jest.fn() handlers)
Handlers == {"fn1", "fn2"}

\* typeof newValue === 'function'
IsFunction(v) == v.prim \in Handlers

\* () => newValue
Wrap(v) == [ref |-> v.ref, prim |-> v.prim, wrapped |-> TRUE]

\* Faulty variant of updateValue: the selected value is handed to setResult as it is
updateValue_Unwrapped(h, scope, s) == setResult(h, selector(scope, s))

\* updateValue of the closure whose selector has the given scope:
\* setResult(typeof newValue === 'function' ? () => newValue : newValue)
updateValue(h, scope, s) ==
    LET newValue == selector(scope, s)
    IN  setResult(h, IF IsFunction(newValue) THEN Wrap(newValue) ELSE newValue)

\* -------------------------------------------------------------- notification
NoCalls == [rule |-> 0, subscriber |-> 0]

\* Faulty variant of the merge: the fields are written into the current object
mergeState_InPlace(s, partial) == [id |-> s.id, val |-> spread(s.val, partial)]

\* this.state = { ...this.state, ...state }: an object literal is a new object
mergeState(s, partial) == [id |-> s.id + 1, val |-> spread(s.val, partial)]

RECURSIVE forEach(_, _)

\* Faulty variant of the subscriber that calls setState: the state is merged and
\* no listener is told
callSubscriber_MergeOnly(w, l) ==
    LET cb == w.listeners[l].subscriber
        w1 == [w EXCEPT !.calls[l].subscriber = @ + 1,
                        !.order = Append(@, <<l, "subscriber">>)]
    IN  CASE cb.kind = "updateValue" ->
                [w1 EXCEPT !.hook = updateValue(@, cb.scope, w.state),
                           !.pushes = @ + 1]
          [] cb.kind = "unsubNext" ->
                [w1 EXCEPT !.subscribers = SetDelete(@, l + 1)]
          [] cb.kind = "setB" ->
                IF Get(w1.state, "b") # "A"
                THEN [w1 EXCEPT !.state = mergeState(@, [b |-> "A"]),
                                !.order = @ \o <<(<<l, "setState">>), (<<l, "return">>)>>]
                ELSE w1
          [] OTHER -> w1

\* a listener's subscriber (its callback) is called:
\*   fn           jest.fn()
\*   updateValue  the hook's updateValue
\*   unsubNext    () => unsubNext?.(), with the Unsubber of the listener
\*                subscribed right after this one
\*   setB         () => { if (m.getState().b !== 'A') m.setState({ b: 'A' }) }:
\*                setState runs inside the call, the merge and its forEach
\*   subOnce      () => { if (!done) { done = true; m.subscribe(fn) } }, or
\*                m.subscribe(filter, fn) for the filter named by scope;
\*                subDone once it has subscribed
\*   throws       () => { throw new Error() }
\*   deepUpdate   () => setResult(selector(manager.getState())) of useDeepState
callSubscriber(w, l) ==
    LET cb == w.listeners[l].subscriber
        w1 == [w EXCEPT !.calls[l].subscriber = @ + 1,
                        !.order = Append(@, <<l, "subscriber">>)]
    IN  CASE cb.kind = "updateValue" ->
                [w1 EXCEPT !.hook = updateValue(@, cb.scope, w.state),
                           !.pushes = @ + 1]
          [] cb.kind = "unsubNext" ->
                [w1 EXCEPT !.subscribers = SetDelete(@, l + 1)]
          [] cb.kind = "setB" ->
                IF Get(w1.state, "b") # "A"
                THEN LET merged == mergeState(w1.state, [b |-> "A"])
                         inner == forEach([w1 EXCEPT !.state = merged,
                                                     !.order = Append(@, <<l, "setState">>)], 1)
                     IN  [inner EXCEPT !.order = Append(@, <<l, "return">>)]
                ELSE w1
          [] cb.kind = "subOnce" ->
                LET n == Len(w1.listeners) + 1
                    me == [filter |-> [kind |-> cb.scope, key |-> "-", inner |-> "none"],
                           subscriber |-> [kind |-> "fn", scope |-> "-"],
                           previous |-> w1.state]
                IN  [w1 EXCEPT !.listeners = Append([@ EXCEPT ![l].subscriber.kind = "subDone"], me),
                               !.subscribers = SetAdd(@, n),
                               !.calls = Append(@, NoCalls)]
          [] cb.kind = "throws" -> [w1 EXCEPT !.thrown = TRUE]
          [] cb.kind = "deepUpdate" ->
                [w1 EXCEPT !.hook = setResult(@, selector(cb.scope, w.state)),
                           !.pushes = @ + 1]
          [] OTHER -> w1

\* Faulty variant of the registered closure: the snapshot of subscribe time stays
listenerCall_StalePrevious(w, l) ==
    LET me == w.listeners[l]
        verdict == areResultsEqual(me.previous, w.state, me.filter)
        w1 == [w EXCEPT !.calls[l].rule = @ + verdict.calls]
    IN  IF ~verdict.equal THEN callSubscriber(w1, l) ELSE w1

\* Faulty variant of the registered closure: the remembered snapshot moves only
\* when the subscriber was called
listenerCall_KeepPrevious(w, l) ==
    LET me == w.listeners[l]
        current == w.state
        verdict == areResultsEqual(me.previous, current, me.filter)
        w1 == [w EXCEPT !.calls[l].rule = @ + verdict.calls]
    IN  IF ~verdict.equal
        THEN [callSubscriber(w1, l) EXCEPT !.listeners[l].previous = current]
        ELSE w1

\* Faulty variant of the closure: previous is read from the container again
\* after the subscriber returned
listenerCall_LivePrevious(w, l) ==
    LET me == w.listeners[l]
        current == w.state
        verdict == areResultsEqual(me.previous, current, me.filter)
        spied == IF me.filter.kind = "hook"
                 THEN hookRuleEval(me.filter, me.previous, current).calls
                 ELSE 0
        w1 == [w EXCEPT !.calls[l].rule = @ + verdict.calls,
                        !.spied = @ + spied,
                        !.order = Append(@, <<l, "rule">>)]
        w2 == IF ~verdict.equal THEN callSubscriber(w1, l) ELSE w1
    IN  IF verdict.thrown
        THEN [w1 EXCEPT !.thrown = TRUE]
        ELSE IF w2.thrown
             THEN w2
             ELSE [w2 EXCEPT !.listeners[l].previous = w2.state]

\* the closure subscribe() registers: () => { current = getState(); ... }
\* (a filter or a subscriber that throws leaves the closure before previous = current)
listenerCall(w, l) ==
    LET me == w.listeners[l]
        current == w.state
        verdict == areResultsEqual(me.previous, current, me.filter)
        spied == IF me.filter.kind = "hook"
                 THEN hookRuleEval(me.filter, me.previous, current).calls
                 ELSE 0
        w1 == [w EXCEPT !.calls[l].rule = @ + verdict.calls,
                        !.spied = @ + spied,
                        !.order = Append(@, <<l, "rule">>)]
        w2 == IF ~verdict.equal THEN callSubscriber(w1, l) ELSE w1
    IN  IF verdict.thrown
        THEN [w1 EXCEPT !.thrown = TRUE]
        ELSE IF w2.thrown
             THEN w2
             ELSE [w2 EXCEPT !.listeners[l].previous = current]

\* Faulty variant of forEach: it goes on after a listener threw
\* Faulty variant of the iteration: after an exception every listener is taken
\* to have seen the state
RECURSIVE forEach_Forget(_, _)
forEach_Forget(w, i) ==
    IF w.thrown
    THEN [w EXCEPT !.listeners = [k \in DOMAIN @ |-> [@[k] EXCEPT !.previous = w.state]]]
    ELSE IF i > Len(w.subscribers) THEN w
    ELSE IF w.subscribers[i] = Empty
         THEN forEach_Forget(w, i + 1)
         ELSE forEach_Forget(listenerCall(w, w.subscribers[i]), i + 1)

RECURSIVE forEach_Resume(_, _)
forEach_Resume(w, i) ==
    IF i > Len(w.subscribers)
    THEN w
    ELSE IF w.subscribers[i] = Empty
         THEN forEach_Resume(w, i + 1)
         ELSE forEach_Resume(listenerCall(w, w.subscribers[i]), i + 1)

\* this.subscribers.forEach((l) => l()): the entries in insertion order, as the
\* Set is when each is reached; an exception leaves the loop
forEach(w, i) ==
    IF i > Len(w.subscribers) \/ w.thrown
    THEN w
    ELSE IF w.subscribers[i] = Empty
         THEN forEach(w, i + 1)
         ELSE forEach(listenerCall(w, w.subscribers[i]), i + 1)

World ==
    [state |-> state, subscribers |-> subscribers, listeners |-> listeners,
     hook |-> hook, calls |-> [l \in 1..Len(listeners) |-> NoCalls], pushes |-> 0,
     order |-> <<>>, thrown |-> FALSE, spied |-> 0]

\* what `last` holds after an operation (spied: the calls of the binding's filter)
Observed(op, partial, w) ==
    [op |-> op, partial |-> partial, calls |-> w.calls, pushes |-> w.pushes,
     spied |-> w.spied]

\* -------------------------------------------------------------- manager actions
\* setState(partial)
setState(partial) ==
    /\ state.id < MaxMutations
    /\ LET merged == mergeState(state, partial)
           w == forEach([World EXCEPT !.state = merged], 1)
       IN  /\ state' = w.state
           /\ subscribers' = Compact(w.subscribers)
           /\ listeners' = w.listeners
           /\ hook' = [w.hook EXCEPT !.gap = IF @ < 2 /\ hook.phase = "rendered"
                                               THEN @ + 1 ELSE @]
           /\ last' = Observed("setState", partial, w)

\* subscribe(filter, subscriber) and subscribe(subscriber) called by the application
subscribe(filter) ==
    /\ Len(listeners) < MaxSubscriptions
    /\ LET l == Len(listeners) + 1
           me == [filter |-> [kind |-> filter, key |-> "-", inner |-> "none"],
                  subscriber |-> [kind |-> "fn", scope |-> "-"],
                  previous |-> state]
       IN  /\ listeners' = Append(listeners, me)
           /\ subscribers' = SetAdd(subscribers, l)
           /\ last' = Observed("subscribe", <<>>,
                               [World EXCEPT !.calls = [k \in 1..l |-> NoCalls]])
    /\ UNCHANGED <<state, hook>>

\* the Unsubber subscribe() returned for listener l is called (any number of times)
unsubscribe(l) ==
    /\ listeners[l].subscriber.kind = "fn"
    /\ subscribers' = Compact(SetDelete(subscribers, l))
    /\ last' = Observed("unsubscribe", <<>>, World)
    /\ UNCHANGED <<state, listeners, hook>>

\* -------------------------------------------------------------- the container alone
\* new ExtendedStateManager(state): the fields of S may be optional
InitialStates == {[id |-> 0, val |-> v] : v \in [Fields -> Values]}
OptionalStates == {[id |-> 0, val |-> v] : v \in [{"a"} -> Values]}

Init ==
    /\ state \in InitialStates \cup OptionalStates
    /\ subscribers = <<>>
    /\ listeners = <<>>
    /\ hook = Unbound
    /\ last = [op |-> "new", partial |-> <<>>, calls |-> <<>>, pushes |-> 0]

Next ==
    \/ \E partial \in Partials : setState(partial)
    \/ \E filter \in UserFilters \cup {"default"} : subscribe(filter)
    \/ \E l \in 1..Len(listeners) : unsubscribe(l)

Spec == Init /\ [][Next]_vars

\* -------------------------------------------------------------- two mutations in a row
\* what `last` holds after a setState when the one before it is remembered too:
\* the state each of the two found, and the calls the earlier one made
ObservedWindow(partial, w) ==
    [op |-> "setState", partial |-> partial, calls |-> w.calls, pushes |-> w.pushes,
     before |-> state,
     earlier |-> IF last.op = "setState" THEN last.before ELSE Null,
     earlierCalls |-> IF last.op = "setState" THEN last.calls ELSE <<>>]

\* setState(partial), observed together with the setState right before it
setStateWindow(partial) ==
    /\ state.id < MaxWindowMutations
    /\ LET merged == mergeState(state, partial)
           w == forEach([World EXCEPT !.state = merged], 1)
       IN  /\ state' = w.state
           /\ subscribers' = Compact(w.subscribers)
           /\ listeners' = w.listeners
           /\ hook' = w.hook
           /\ last' = ObservedWindow(partial, w)

NextWindow ==
    \/ \E partial \in Partials : setStateWindow(partial)
    \/ \E filter \in UserFilters \cup {"default"} : subscribe(filter)
    \/ \E l \in 1..Len(listeners) : unsubscribe(l)

SpecWindow == Init /\ [][NextWindow]_vars

\* -------------------------------------------------------------- several listeners
\* what `last` holds after an operation on a container with several listeners:
\*   order    the rule evaluations and subscriber calls, as they happened
\*   thrown   whether the operation threw
\*   target   the listener an Unsubber belongs to (0: none)
\*   had      whether the target was in the Set when the operation began
ObservedPass(op, partial, target, w) ==
    [op |-> op, partial |-> partial, calls |-> w.calls, pushes |-> w.pushes,
     order |-> w.order, thrown |-> w.thrown,
     target |-> target, had |-> SetHas(subscribers, target)]

\* the partials given to setState here: none of the fields, or b
PassPartials == {p \in Partials : DOMAIN p \subseteq {"b"}}

\* the rules and subscribers given to subscribe() here
PassFilters == {"default", "hashB", "throws"}
PassSubscribers == {"fn", "unsubNext"}

\* setState(partial); `last` tells whether it returned or threw
setStatePass(partial) ==
    /\ state.id < MaxPassMutations
    /\ LET merged == mergeState(state, partial)
           w == forEach([World EXCEPT !.state = merged], 1)
       IN  /\ state' = w.state
           /\ subscribers' = Compact(w.subscribers)
           /\ listeners' = w.listeners
           /\ hook' = w.hook
           /\ last' = ObservedPass("setState", partial, 0, w)

\* subscribe(filter, subscriber) and subscribe(subscriber)
subscribePass(filter, subscriber) ==
    /\ Len(listeners) < MaxPassListeners
    /\ LET l == Len(listeners) + 1
           me == [filter |-> [kind |-> filter, key |-> "-", inner |-> "none"],
                  subscriber |-> [kind |-> subscriber, scope |-> "-"],
                  previous |-> state]
       IN  /\ listeners' = Append(listeners, me)
           /\ subscribers' = SetAdd(subscribers, l)
           /\ last' = ObservedPass("subscribe", <<>>, 0,
                                   [World EXCEPT !.calls = [k \in 1..l |-> NoCalls]])
    /\ UNCHANGED <<state, hook>>

\* the Unsubber of listener l is called by the application (any number of times)
unsubscribePass(l) ==
    /\ subscribers' = Compact(SetDelete(subscribers, l))
    /\ last' = ObservedPass("unsubscribe", <<>>, l, World)
    /\ UNCHANGED <<state, listeners, hook>>

\* const manager = new ExtendedStateManager<State>({ a: null, b: null })
InitPass ==
    /\ state = [id |-> 0, val |-> [a |-> "null", b |-> "null"]]
    /\ subscribers = <<>>
    /\ listeners = <<>>
    /\ hook = Unbound
    /\ last = [op |-> "new", partial |-> <<>>, calls |-> <<>>, pushes |-> 0]

NextPass ==
    \/ \E partial \in PassPartials : setStatePass(partial)
    \/ \E filter \in PassFilters, subscriber \in PassSubscribers :
          subscribePass(filter, subscriber)
    \/ \E l \in 1..Len(listeners) : unsubscribePass(l)

SpecPass == InitPass /\ [][NextPass]_vars

\* -------------------------------------------------------------- setState inside a subscriber
\* the rules and subscribers given to subscribe() here
NestedFilters == {"default", "hashB"}
NestedSubscribers == {"fn", "setB"}

NextNested ==
    \/ \E partial \in PassPartials : setStatePass(partial)
    \/ \E filter \in NestedFilters, subscriber \in NestedSubscribers :
          subscribePass(filter, subscriber)
    \/ \E l \in 1..Len(listeners) : unsubscribePass(l)

SpecNested == InitPass /\ [][NextNested]_vars

\* -------------------------------------------------------------- rules and subscribers that throw
ThrowFilters == {"hashB", "throws"}
ThrowSubscribers == {"fn", "throws"}

NextThrow ==
    \/ \E partial \in PassPartials : setStatePass(partial)
    \/ \E filter \in ThrowFilters, subscriber \in ThrowSubscribers :
          subscribePass(filter, subscriber)
    \/ \E l \in 1..Len(listeners) : unsubscribePass(l)

SpecThrow == InitPass /\ [][NextThrow]_vars

\* -------------------------------------------------------------- subscribe inside a subscriber
\* subscribe(filter, subscriber) where the subscriber subscribes a listener of
\* its own, with or without a filter, the first time it is called (the
\* application has one such subscriber)
subscribeLate(filter, late) ==
    /\ Len(listeners) < MaxPassListeners
    /\ \A k \in 1..Len(listeners) : listeners[k].subscriber.kind \notin {"subOnce", "subDone"}
    /\ LET l == Len(listeners) + 1
           me == [filter |-> [kind |-> filter, key |-> "-", inner |-> "none"],
                  subscriber |-> [kind |-> "subOnce", scope |-> late],
                  previous |-> state]
       IN  /\ listeners' = Append(listeners, me)
           /\ subscribers' = SetAdd(subscribers, l)
           /\ last' = ObservedPass("subscribe", <<>>, 0,
                                   [World EXCEPT !.calls = [k \in 1..l |-> NoCalls]])
    /\ UNCHANGED <<state, hook>>

NextLate ==
    \/ \E partial \in PassPartials : setStatePass(partial)
    \/ \E filter \in NestedFilters : subscribePass(filter, "fn")
    \/ \E late \in NestedFilters : subscribeLate("default", late)
    \/ \E l \in 1..Len(listeners) : unsubscribePass(l)

SpecLate == InitPass /\ [][NextLate]_vars

\* -------------------------------------------------------------- the binding site
\* the selector closure of a render: (s) => s[id], or (s) => s
Scope(kind, id) == IF kind = "self" THEN "self" ELSE id

\* basicStateReducer of useState: typeof action === 'function' ? action(state) : action
\* (the wrapper returns what it wraps; a handler called with the state returns undefined)
basicStateReducer(current, action) ==
    IF "wrapped" \in DOMAIN action
    THEN [ref |-> action.ref, prim |-> action.prim]
    ELSE IF IsFunction(action) THEN Prim("undefined") ELSE action

\* the queued updates are applied in order by the next render
RECURSIVE reduceState(_, _)
reduceState(current, queue) ==
    IF queue = <<>> THEN current
    ELSE reduceState(basicStateReducer(current, Head(queue)), Tail(queue))

\* the queued updates in which React calls a function of the state
invocations(queue) ==
    Len(SelectSeq(queue, LAMBDA action :
                    "wrapped" \notin DOMAIN action /\ IsFunction(action)))

\* Faulty variant of the catch-up effect: it never pushes
catchUpEffect_Never(h, s) == h

\* useLayoutEffect(() => { if (firstRender.current !== null &&
\*     firstRender.current !== manager.getState()) updateValue(); }, ...)
catchUpEffect(h, s) ==
    IF h.firstRender # Null /\ h.firstRender.id # s.id
    THEN [updateValue(h, h.scope, s) EXCEPT !.catchUps = IF @ < 2 THEN @ + 1 ELSE @]
    ELSE h

\* Faulty variant of the dependency effect: it never pushes
dependencyEffect_Never(h, s) == h

\* useLayoutEffect(() => { if (firstRender.current === null) updateValue(); }, ...)
dependencyEffect(h, s) ==
    IF h.firstRender = Null THEN updateValue(h, h.scope, s) ELSE h

\* Faulty variant of the last effect: the ref keeps the first snapshot
firstRenderDone_Forgotten(h) == h

\* useLayoutEffect(() => { firstRender.current = null; }, [])
firstRenderDone(h) == [h EXCEPT !.firstRender = Null]

\* Faulty variant of the useState initializer: the value is left for the effects to fill
initialResult_Lazy(key, s) == NoValue

\* useState(() => selector(manager.getState()))
initialResult(key, s) == selector(key, s)

\* Faulty variant of the subscribe effect: the rule and updateValue keep the
\* selector of the first render
hookListener_FirstScope(h) ==
    [filter |-> [kind |-> "hook", key |-> Scope(h.kind, h.id0), inner |-> h.filter],
     subscriber |-> [kind |-> "updateValue", scope |-> Scope(h.kind, h.id0)],
     previous |-> state]

\* the listener the subscribe effect registers: manager.subscribe(rule, updateValue)
hookListener(h) ==
    [filter |-> [kind |-> "hook", key |-> h.scope, inner |-> h.filter],
     subscriber |-> [kind |-> "updateValue", scope |-> h.scope],
     previous |-> state]

\* the closure of a cleaned-up effect is unreachable: its slot is given back
release(ls, l) ==
    IF l = Len(ls) THEN SubSeq(ls, 1, l - 1)
    ELSE [ls EXCEPT ![l].subscriber = [kind |-> "released", scope |-> "-"]]

\* the hooks of createExtendedState and of createDeepState
ExtendedHooks == {"useExtendedState", "useExtendedStateDispatcher"}
DeepHooks == {"useDeepState", "useDeepStateDispatcher"}

\* useContext(Context): each create...State() has a Context of its own, and the
\* tree has at most the Provider of createExtendedState
useContext(api, h) == IF api \in ExtendedHooks THEN h.context ELSE "null"

\* Faulty variant of getManager: without a Provider a default manager is used
getManager_Default(context) == [ok |-> TRUE, error |-> ""]

\* getManager(caller): the manager, or throwCaptured(new Error(...), caller)
getManager(context) ==
    IF context # "null"
    THEN [ok |-> TRUE, error |-> ""]
    ELSE [ok |-> FALSE, error |-> "Must be used with-in a Provider"]

\* getContext(caller) of createDeepState
getContext(context) ==
    IF context # "null"
    THEN [ok |-> TRUE, error |-> ""]
    ELSE [ok |-> FALSE, error |-> "Must be used with-in a Provider"]

\* the first statement of every hook: "First retrieve the context"
retrieve(api, h) ==
    IF api \in ExtendedHooks
    THEN getManager(useContext(api, h))
    ELSE getContext(useContext(api, h))

\* A render in which the hook `api` finds no manager: the hook throws, the render
\* is abandoned
renderOutside(api) ==
    /\ hook.phase = "unbound"
    /\ ~retrieve(api, hook).ok
    /\ hook' = [hook EXCEPT !.phase = "failed", !.error = retrieve(api, hook).error]
    /\ last' = Observed(api, <<>>, World)
    /\ UNCHANGED <<state, subscribers, listeners>>

\* First render of a component calling useExtendedState(selector, filter?, deps?)
firstRender(kind, deps, filter, id) ==
    /\ hook.phase = "unbound"
    /\ retrieve("useExtendedState", hook).ok
    /\ hook' = [hook EXCEPT !.phase = "rendered", !.kind = kind, !.deps = deps,
                            !.filter = filter, !.id = id, !.nextId = id, !.id0 = id,
                            !.scope = Scope(kind, id),
                            !.firstRender = state,
                            !.currentResult = initialResult(Scope(kind, id), state),
                            !.renders = 1]
    /\ last' = Observed("firstRender", <<>>, World)
    /\ UNCHANGED <<state, subscribers, listeners>>

\* The commit of the first render: the four layout effects, in order
commitMount ==
    /\ hook.phase = "rendered"
    /\ LET l == Len(listeners) + 1
           h1 == [hook EXCEPT !.phase = "active", !.listener = l,
                              !.mountedAt = state.id]
           h2 == firstRenderDone(dependencyEffect(catchUpEffect(h1, state), state))
       IN  /\ listeners' = Append(listeners, hookListener(hook))
           /\ subscribers' = SetAdd(subscribers, l)
           /\ hook' = h2
           /\ last' = Observed("commitMount", <<>>,
                               [World EXCEPT !.pushes = Len(h2.pending) - Len(hook.pending)])
    /\ UNCHANGED state

\* The component's event handler calls setId(id)
setId(id) ==
    /\ hook.phase = "active"
    /\ id # hook.nextId
    /\ hook' = [hook EXCEPT !.nextId = id]
    /\ last' = Observed("setId", <<>>, World)
    /\ UNCHANGED <<state, subscribers, listeners>>

\* Faulty variant of a later render: useCallback takes what the selector closes
\* over for a dependency, listed or not
render_AlwaysDependent ==
    /\ hook.phase = "active"
    /\ hook.pending # <<>> \/ hook.nextId # hook.id
    /\ LET changed == hook.nextId # hook.id
       IN  hook' = [hook EXCEPT
                      !.currentResult = reduceState(@, hook.pending),
                      !.pending = <<>>,
                      !.invoked = @ + invocations(hook.pending),
                      !.id = hook.nextId,
                      !.scope = IF changed THEN Scope(hook.kind, hook.nextId) ELSE @,
                      !.phase = IF changed THEN "updating" ELSE @,
                      !.renders = 2]
    /\ last' = Observed("render", <<>>, World)
    /\ UNCHANGED <<state, subscribers, listeners>>

\* A later render: queued values are applied, useCallback compares [manager, ...dependencies]
render ==
    /\ hook.phase = "active"
    /\ hook.pending # <<>> \/ hook.nextId # hook.id
    /\ LET changed == hook.deps /\ hook.nextId # hook.id
       IN  hook' = [hook EXCEPT
                      !.currentResult = reduceState(@, hook.pending),
                      !.pending = <<>>,
                      !.invoked = @ + invocations(hook.pending),
                      !.id = hook.nextId,
                      !.scope = IF changed THEN Scope(hook.kind, hook.nextId) ELSE @,
                      !.phase = IF changed THEN "updating" ELSE @,
                      !.renders = 2]
    /\ last' = Observed("render", <<>>, World)
    /\ UNCHANGED <<state, subscribers, listeners>>

\* Faulty variant of the cleanup: the old listener stays subscribed
commitCleanup_Keep ==
    /\ hook.phase = "updating"
    /\ hook' = [hook EXCEPT !.phase = "resubscribing", !.listener = 0]
    /\ last' = Observed("commitCleanup", <<>>, World)
    /\ UNCHANGED <<state, subscribers, listeners>>

\* Commit of a render whose updateValue changed: the subscribe effect's cleanup
commitCleanup ==
    /\ hook.phase = "updating"
    /\ subscribers' = Compact(SetDelete(subscribers, hook.listener))
    /\ listeners' = release(listeners, hook.listener)
    /\ hook' = [hook EXCEPT !.phase = "resubscribing", !.listener = 0]
    /\ last' = Observed("commitCleanup", <<>>, World)
    /\ UNCHANGED state

\* Commit of a render whose updateValue changed: the effects that depend on it
commitUpdate ==
    /\ hook.phase = "resubscribing"
    /\ LET l == Len(listeners) + 1
           h1 == [hook EXCEPT !.phase = "active", !.listener = l]
           h2 == dependencyEffect(catchUpEffect(h1, state), state)
       IN  /\ listeners' = Append(listeners, hookListener(hook))
           /\ subscribers' = SetAdd(subscribers, l)
           /\ hook' = h2
           /\ last' = Observed("commitUpdate", <<>>,
                               [World EXCEPT !.pushes = Len(h2.pending) - Len(hook.pending)])
    /\ UNCHANGED state

\* -------------------------------------------------------------- a Provider and one binding
\* the filters given to useExtendedState: none, (v) => v, and with the selector
\* (s) => s also (v) => typeof v
HookFilters(kind) == {"none", "hashV"} \cup (IF kind = "self" THEN {"hashT"} ELSE {})

InitHook ==
    /\ state \in InitialStates
    /\ subscribers = <<>>
    /\ listeners = <<>>
    /\ hook \in {Unbound, Outside}
    /\ last = [op |-> "new", partial |-> <<>>, calls |-> <<>>, pushes |-> 0]

NextHook ==
    \/ \E partial \in Partials : setState(partial)
    \/ \E kind \in {"byId", "self"}, deps \in BOOLEAN, id \in Fields :
          \E filter \in HookFilters(kind) : firstRender(kind, deps, filter, id)
    \/ commitMount
    \/ \E id \in Fields : setId(id)
    \/ render
    \/ commitCleanup
    \/ commitUpdate
    \/ \E api \in ExtendedHooks \cup DeepHooks : renderOutside(api)

SpecHook == InitHook /\ [][NextHook]_vars

\* -------------------------------------------------------------- a handler in the state
\* <Provider value={{ handler: firstHandler }}> and dispatch({ handler: secondHandler }):
\* field a holds the handler, field b a plain value
HandlerPartials == {[a |-> "fn1"], [a |-> "fn2"], [b |-> "A"]}

InitHandler ==
    /\ state = [id |-> 0, val |-> [a |-> "fn1", b |-> "null"]]
    /\ subscribers = <<>>
    /\ listeners = <<>>
    /\ hook = Unbound
    /\ last = [op |-> "new", partial |-> <<>>, calls |-> <<>>, pushes |-> 0]

NextHandler ==
    \/ \E partial \in HandlerPartials : setState(partial)
    \/ \E deps \in BOOLEAN, id \in Fields : firstRender("byId", deps, "none", id)
    \/ commitMount
    \/ \E id \in Fields : setId(id)
    \/ render
    \/ commitCleanup
    \/ commitUpdate

SpecHandler == InitHandler /\ [][NextHandler]_vars

\* -------------------------------------------------------------- the Provider and the dispatcher
\* what `last` holds after an operation in the tree: also the argument of the
\* dispatch, the argument of the dispatch just before it, and the setState calls
\* of the Provider so far
NoUpdate == [kind |-> "none", partial |-> <<>>, name |-> "-"]

ObservedTree(op, update, partial, w) ==
    [op |-> op, partial |-> partial, calls |-> w.calls, pushes |-> w.pushes,
     spied |-> w.spied, update |-> update,
     earlier |-> IF last.op = "dispatch" THEN last.update ELSE NoUpdate]

\* Faulty variant of useMemo: the manager is made again from the props of every render
memoManager_Keyed(p, props) == props.n

\* useMemo(() => ('value' in props ? new ExtendedStateManager(props.value)
\*                                 : props.manager), []):
\* computed by the first render, kept by every later one
memoManager(p, props) == IF p.phase = "none" THEN props.n ELSE p.manager

\* Faulty variant of the Provider's effect: the state is assigned, no listener is told
propsEffect_Silent(w) ==
    LET p == w.hook.provider
        same == p.prop.n = 0 /\ (p.mode = "manager" \/ w.state.id = 0)
    IN  IF p.ignorePropsChanges \/ same THEN w
        ELSE [w EXCEPT !.state = mergeState(@, p.prop.val),
                       !.hook.provider.sets = @ + 1]

\* Faulty variant of the Provider's effect: ignorePropsChanges is not looked at
propsEffect_Always(w) ==
    LET p == w.hook.provider
        same == p.prop.n = 0 /\ (p.mode = "manager" \/ w.state.id = 0)
    IN  IF same THEN w
        ELSE forEach([w EXCEPT !.state = mergeState(@, p.prop.val),
                               !.hook.provider.sets = @ + 1], 1)

\* if (!ignorePropsChanges) useLayoutEffect(() => {
\*     const state = 'value' in props ? props.value : props.manager.getState();
\*     if (state !== manager.getState()) manager.setState(state); }, [...])
\* The object of the first render's props is the manager's state as long as no
\* setState replaced it (value), or for ever (manager: it is the same manager).
propsEffect(w) ==
    LET p == w.hook.provider
        same == p.prop.n = 0 /\ (p.mode = "manager" \/ w.state.id = 0)
    IN  IF p.ignorePropsChanges \/ same THEN w
        ELSE forEach([w EXCEPT !.state = mergeState(@, p.prop.val),
                               !.hook.provider.sets = @ + 1], 1)

\* First render of <Provider value={...}> or <Provider manager={...}>, made by
\* createExtendedState({ ignorePropsChanges })
providerFirstRender(ignorePropsChanges, mode) ==
    /\ hook.provider.phase = "none"
    /\ LET props == [n |-> 0, val |-> state.val]
       IN  hook' = [hook EXCEPT !.provider =
                      [@ EXCEPT !.phase = "rendered",
                                !.ignorePropsChanges = ignorePropsChanges,
                                !.mode = mode,
                                !.prop = props,
                                !.manager = memoManager(hook.provider, props)]]
    /\ last' = ObservedTree("Provider", NoUpdate, <<>>, World)
    /\ UNCHANGED <<state, subscribers, listeners>>

\* The commit of the Provider's first render: its layout effect runs after
\* those of the components below it
providerMount ==
    /\ hook.provider.phase = "rendered"
    /\ hook.phase # "rendered"
    /\ state.id < MaxTreeMutations
    /\ LET w == propsEffect([World EXCEPT !.hook.provider.phase = "mounted"])
       IN  /\ state' = w.state
           /\ subscribers' = Compact(w.subscribers)
           /\ listeners' = w.listeners
           /\ hook' = w.hook
           /\ last' = ObservedTree("providerMount", NoUpdate, <<>>, w)

\* The parent renders the Provider with a new value object (or another manager,
\* whose state has these fields), and the render is committed: the dependency of
\* the effect changed, the effect runs
providerUpdate(val) ==
    /\ hook.provider.phase = "mounted"
    /\ hook.phase \in {"unbound", "active", "unmounted"}
    /\ hook.provider.prop.n < MaxPropChanges
    /\ state.id < MaxTreeMutations
    /\ LET props == [n |-> hook.provider.prop.n + 1, val |-> val]
           rendered == [hook.provider EXCEPT !.prop = props,
                                             !.manager = memoManager(hook.provider, props)]
           w == propsEffect([World EXCEPT !.hook.provider = rendered])
       IN  /\ state' = w.state
           /\ subscribers' = Compact(w.subscribers)
           /\ listeners' = w.listeners
           /\ hook' = w.hook
           /\ last' = ObservedTree("providerUpdate", NoUpdate, val, w)

\* the functions given to the dispatcher:
\*   toggleB   ({ b }) => ({ b: b === null ? 'A' : null })
\*   copyBtoA  ({ b }) => ({ a: b })
Generators == {"toggleB", "copyBtoA"}

generator(name, s) ==
    CASE name = "toggleB" -> [b |-> IF Get(s, "b") = "null" THEN "A" ELSE "null"]
      [] name = "copyBtoA" -> [a |-> Get(s, "b")]

\* what the dispatcher is called with: a partial, or a function of the state
Updates ==
    {[kind |-> "partial", partial |-> p, name |-> "-"] : p \in {[b |-> "A"], [a |-> "A"]}}
        \cup {[kind |-> "generator", partial |-> <<>>, name |-> g] : g \in Generators}

\* Faulty variant of the dispatcher: a function is handed to setState as it is
\* (a function has no fields to merge)
resolve_Uncalled(update, s) ==
    IF update.kind = "generator" THEN <<>> ELSE update.partial

\* newStateOrGenerator instanceof Function
\*     ? newStateOrGenerator(manager.getState()) : newStateOrGenerator
resolve(update, s) ==
    IF update.kind = "generator" THEN generator(update.name, s) ELSE update.partial

\* useExtendedStateDispatcher()(update), in a component below the Provider
dispatch(update) ==
    /\ hook.provider.phase # "none"
    /\ state.id < MaxTreeMutations
    /\ LET partial == resolve(update, state)
           w == forEach([World EXCEPT !.state = mergeState(state, partial)], 1)
       IN  /\ state' = w.state
           /\ subscribers' = Compact(w.subscribers)
           /\ listeners' = w.listeners
           /\ hook' = [w.hook EXCEPT !.gap = IF @ < 2 /\ hook.phase = "rendered"
                                               THEN @ + 1 ELSE @]
           /\ last' = ObservedTree("dispatch", update, partial, w)

\* the binding's component renders for the first time, below the Provider
firstRenderBelow(filter, id) ==
    /\ hook.provider.phase # "none"
    /\ firstRender("byId", FALSE, filter, id)

\* Faulty variant of the unmount: the subscribe effect has no cleanup
unmount_Leak ==
    /\ hook.phase = "active"
    /\ hook' = [hook EXCEPT !.phase = "unmounted"]
    /\ last' = ObservedTree("unmount", NoUpdate, <<>>, World)
    /\ UNCHANGED <<state, subscribers, listeners>>

\* The binding's component is removed: React runs the cleanup of the subscribe
\* effect, the Unsubber manager.subscribe returned
unmount ==
    /\ hook.phase = "active"
    /\ subscribers' = Compact(SetDelete(subscribers, hook.listener))
    /\ listeners' = release(listeners, hook.listener)
    /\ hook' = [hook EXCEPT !.phase = "unmounted", !.listener = 0]
    /\ last' = ObservedTree("unmount", NoUpdate, <<>>,
                            [World EXCEPT !.calls = [l \in 1..Len(listeners') |-> NoCalls]])
    /\ UNCHANGED state

\* the value objects (or states of managers) given to the Provider after its
\* first render
PropValues == {[a |-> "null", b |-> "null"], [a |-> "null", b |-> "A"]}

\* the filters given to useExtendedState((s) => s.b, filter) below the Provider
TreeFilters == {"none", "cmpWasNull"}

\* <Provider value={{ a: null, b: null }}>, or a manager with that state
InitTree ==
    /\ state = [id |-> 0, val |-> [a |-> "null", b |-> "null"]]
    /\ subscribers = <<>>
    /\ listeners = <<>>
    /\ hook = [Unbound EXCEPT !.provider = NoProvider]
    /\ last = [op |-> "new", partial |-> <<>>, calls |-> <<>>, pushes |-> 0]

NextTree ==
    \/ \E ignorePropsChanges \in BOOLEAN, mode \in {"value", "manager"} :
          providerFirstRender(ignorePropsChanges, mode)
    \/ providerMount
    \/ \E val \in PropValues : providerUpdate(val)
    \/ \E update \in Updates : dispatch(update)
    \/ \E filter \in TreeFilters : firstRenderBelow(filter, "b")
    \/ commitMount
    \/ render
    \/ unmount

SpecTree == InitTree /\ [][NextTree]_vars

\* -------------------------------------------------------------- normalizeArgs
\* The arguments of useExtendedState(selector, ...rest):
\*   [tag "selector"]   (s) => s[id]
\*   [tag "function"]   a rule, (v) => hash
\*   [tag "array"]      a dependency list: [id] (deps TRUE) or [] (deps FALSE)
selectorArg(id) == [tag |-> "selector", kind |-> "byId", id |-> id]
ruleArg(filter) == [tag |-> "function", filter |-> filter]
listArg(deps) == [tag |-> "array", deps |-> deps]

\* rest.find(test): the first element of rest passing the test, 0 when none
RECURSIVE find(_, _, _)
find(rest, tag, i) ==
    IF i > Len(rest) THEN 0
    ELSE IF rest[i].tag = tag THEN i
    ELSE find(rest, tag, i + 1)

\* filter and dependencies taken by their place: rest[0], rest[1]
normalizeArgs_Positional(args) ==
    LET rest == Tail(args)
    IN  [selector |-> Head(args),
         filter |-> IF Len(rest) >= 1 /\ rest[1].tag = "function"
                    THEN rest[1].filter ELSE "none",
         dependencies |-> IF Len(rest) >= 2 /\ rest[2].tag = "array"
                          THEN rest[2].deps ELSE FALSE]

\* ([selector, ...rest]) => ({ selector,
\*     filter: rest.find((a) => a instanceof Function) || null,
\*     dependencies: rest.find((a) => Array.isArray(a)) || [] })
normalizeArgs(args) ==
    LET rest == Tail(args)
        f == find(rest, "function", 1)
        d == find(rest, "array", 1)
    IN  [selector |-> Head(args),
         filter |-> IF f = 0 THEN "none" ELSE rest[f].filter,
         dependencies |-> IF d = 0 THEN FALSE ELSE rest[d].deps]

\* First render of a component calling useExtendedState(...args)
useExtendedState(args) ==
    LET c == normalizeArgs(args)
        kind == c.selector.kind
        id == c.selector.id
    IN  /\ hook.phase = "unbound"
        /\ retrieve("useExtendedState", hook).ok
        /\ hook' = [hook EXCEPT !.phase = "rendered", !.kind = kind,
                                !.deps = c.dependencies, !.filter = c.filter,
                                !.id = id, !.nextId = id, !.id0 = id,
                                !.scope = Scope(kind, id),
                                !.firstRender = state,
                                !.currentResult = initialResult(Scope(kind, id), state),
                                !.renders = 1, !.args = args]
        /\ last' = Observed("useExtendedState", <<>>, World)
        /\ UNCHANGED <<state, subscribers, listeners>>

\* the calls of the tests: (selector), (selector, rule), (selector, deps),
\* (selector, rule, deps), (selector, deps, rule)
ArgLists ==
    LET sel == selectorArg("a")
        rule == ruleArg("hashV")
    IN  {<<sel>>, <<sel, rule>>}
        \cup {<<sel, listArg(deps)>> : deps \in BOOLEAN}
        \cup {<<sel, rule, listArg(deps)>> : deps \in BOOLEAN}
        \cup {<<sel, listArg(deps), rule>> : deps \in BOOLEAN}

NextArgs ==
    \/ \E partial \in {[b |-> "A"], [a |-> "A"]} : setState(partial)
    \/ \E args \in ArgLists : useExtendedState(args)
    \/ commitMount
    \/ \E id \in Fields : setId(id)
    \/ render
    \/ commitCleanup
    \/ commitUpdate

SpecArgs == InitTree /\ [][NextArgs]_vars

\* -------------------------------------------------------------- createDeepState
\* useMemo(() => ('initial' in props ? new DeepStateManager(props.initial)
\*                                   : props.manager), [props.initial or props.manager]):
\* made again whenever the prop is another object
deepMemoManager(p, props) == IF props.n # p.prop.n THEN props.n ELSE p.manager

\* useState(initialState): a function given as initial state is called by React
\* and what it returns is the state (a handler returns undefined)
deepInitialResult(v) == IF IsFunction(v) THEN Prim("undefined") ELSE v

\* First render of a component calling useDeepState((s) => s[id], filter?):
\* useState(useMemo(() => selector(manager.getState()), []))
deepFirstRender(filter, id) ==
    /\ hook.phase = "unbound"
    /\ retrieve("useExtendedState", hook).ok
    /\ LET v == selector(Scope("byId", id), state)
       IN  hook' = [hook EXCEPT !.phase = "rendered", !.kind = "byId", !.deps = FALSE,
                                !.filter = filter, !.id = id, !.nextId = id, !.id0 = id,
                                !.scope = Scope("byId", id),
                                !.currentResult = deepInitialResult(v),
                                !.invoked = IF IsFunction(v) THEN @ + 1 ELSE @,
                                !.renders = 1]
    /\ last' = Observed("deepFirstRender", <<>>, World)
    /\ UNCHANGED <<state, subscribers, listeners>>

\* The effect of useDeepState runs: useEffect(() => manager.subscribe(rule,
\* () => setResult(selector(manager.getState()))), [])
deepCommit ==
    /\ hook.phase = "rendered"
    /\ LET l == Len(listeners) + 1
           me == [filter |-> [kind |-> "hook", key |-> hook.scope, inner |-> hook.filter],
                  subscriber |-> [kind |-> "deepUpdate", scope |-> hook.scope],
                  previous |-> state]
       IN  /\ listeners' = Append(listeners, me)
           /\ subscribers' = SetAdd(subscribers, l)
           /\ hook' = [hook EXCEPT !.phase = "active", !.listener = l,
                                    !.mountedAt = state.id,
                                    !.subscribedTo = hook.provider.manager]
           /\ last' = Observed("deepCommit", <<>>, World)
    /\ UNCHANGED state

\* The parent renders <Provider initial={...}> with another object: useMemo
\* makes a new DeepStateManager, which the Context hands to the components
\* below; their effects, with dependencies [], do not run again
deepProviderUpdate(val) ==
    /\ hook.provider.prop.n < MaxPropChanges
    /\ state.id < MaxMutations
    /\ hook.phase \in {"unbound", "active"}
    /\ LET props == [n |-> hook.provider.prop.n + 1, val |-> val]
       IN  hook' = [hook EXCEPT !.provider.prop = props,
                                !.provider.manager = deepMemoManager(hook.provider, props)]
    /\ state' = [id |-> state.id + 1, val |-> val]
    /\ subscribers' = <<>>
    /\ listeners' = listeners
    /\ last' = Observed("deepProviderUpdate", val, World)

\* <Provider initial={{ a: firstHandler, b: null }}>, rendered
DeepProvider == [NoProvider EXCEPT !.phase = "mounted", !.mode = "initial"]

\* the partials given to useDeepStateDispatcher()(partial), and the objects
\* given to the Provider as initial after its first render
DeepPartials == {[a |-> "fn2"], [b |-> "A"], [b |-> "null"]}
DeepInitials == {[a |-> "fn1", b |-> "A"]}

InitDeep ==
    /\ state = [id |-> 0, val |-> [a |-> "fn1", b |-> "null"]]
    /\ subscribers = <<>>
    /\ listeners = <<>>
    /\ hook = [Unbound EXCEPT !.provider = DeepProvider]
    /\ last = [op |-> "new", partial |-> <<>>, calls |-> <<>>, pushes |-> 0]

NextDeep ==
    \/ \E partial \in DeepPartials : setState(partial)
    \/ \E filter \in {"none", "hashV"}, id \in Fields : deepFirstRender(filter, id)
    \/ deepCommit
    \/ render
    \/ \E val \in DeepInitials : deepProviderUpdate(val)

SpecDeep == InitDeep /\ [][NextDeep]_vars

\* -------------------------------------------------------------- mounts and unmounts
\* After an unmount React has dropped the component's hooks: another instance
\* of the component may mount
mountAnother ==
    /\ hook.phase = "unmounted"
    /\ hook' = Unbound
    /\ last' = Observed("mountAnother", <<>>, World)
    /\ UNCHANGED <<state, subscribers, listeners>>

NextLife ==
    \/ setState([b |-> "A"])
    \/ subscribe("default")
    \/ \E l \in 1..Len(listeners) : unsubscribe(l)
    \/ \E deps \in BOOLEAN : firstRender("byId", deps, "none", "a")
    \/ commitMount
    \/ \E id \in Fields : setId(id)
    \/ render
    \/ commitCleanup
    \/ commitUpdate
    \/ unmount
    \/ mountAnother

SpecLife == InitTree /\ [][NextLife]_vars

\* ============================================================== properties
\* the listeners registered in the Set
Registered == {subscribers[i] : i \in 1..Len(subscribers)}

\* -------------------------------------------------------------- the container (Spec)
\* C1: after setState(p) on state s, getState() has exactly the fields of s and p
\* together; each field of p holds p's value and every field of s that p lacks
\* holds its value from s.
C1_MergeCorrect ==
    [][last'.op = "setState" =>
        LET s == state.val
            p == last'.partial
            t == state'.val
        IN  /\ DOMAIN t = (DOMAIN s) \cup (DOMAIN p)
            /\ \A f \in DOMAIN p : t[f] = p[f]
            /\ \A f \in (DOMAIN s) \ (DOMAIN p) : t[f] = s[f]]_vars

\* a partial with b alone was merged into a state: b is p's, a is kept
C1_Witness ==
    /\ last.op = "setState"
    /\ DOMAIN last.partial = {"b"}
    /\ last.partial["b"] = "null"
    /\ state.val = [a |-> "A", b |-> "null"]

\* C7: a listener registered without a rule is invoked exactly once by every
\* setState made while it is registered, whatever the partial.
C7_NoRuleAlwaysFires ==
    [][last'.op = "setState" =>
        \A l \in Registered :
            listeners[l].filter.kind = "default" => last'.calls[l].subscriber = 1]_vars

\* an empty partial was merged and the listener without a rule was still invoked
C7_Witness ==
    /\ last.op = "setState"
    /\ last.partial = <<>>
    /\ \E l \in Registered :
          /\ listeners[l].filter.kind = "default"
          /\ last.calls[l].subscriber = 1

\* C8: a listener with a comparator is invoked by a setState iff the comparator,
\* given (its remembered snapshot, the state after the merge), returns false.
C8_ComparatorGates ==
    [][last'.op = "setState" =>
        \A l \in Registered :
            listeners[l].filter.kind \in Comparators =>
                last'.calls[l].subscriber =
                    IF filterCall(listeners[l].filter, listeners[l].previous, state').bool
                    THEN 0 ELSE 1]_vars

\* the comparator that is not symmetric said "unchanged" for a partial that set
\* fields, and the callback was not invoked
C8_Witness ==
    /\ last.op = "setState"
    /\ DOMAIN last.partial = Fields
    /\ \E l \in Registered :
          /\ listeners[l].filter.kind = "cmpAB"
          /\ last.calls[l].subscriber = 0
          /\ Get(state, "a") # Get(state, "b")

\* the hash of a snapshot under a hash/key extractor
HashOf(f, s) == filterCall(f, s, s).hash

\* C9: a listener with a hash/key extractor h is invoked by a setState iff
\* h(remembered snapshot) is not h(state after the merge).
C9_HashGates ==
    [][last'.op = "setState" =>
        \A l \in Registered :
            listeners[l].filter.kind \in Hashes =>
                last'.calls[l].subscriber =
                    IF HashOf(listeners[l].filter, listeners[l].previous)
                         # HashOf(listeners[l].filter, state')
                    THEN 1 ELSE 0]_vars

\* the hash changed and the callback was invoked
C9_Witness ==
    /\ last.op = "setState"
    /\ \E l \in Registered :
          /\ listeners[l].filter.kind \in Hashes
          /\ last.calls[l].subscriber = 1

\* C10: per setState a hash/key extractor is called exactly twice and a boolean
\* comparator exactly once, whether or not the callback fires; subscribe calls
\* no rule.
C10_RuleCallCount ==
    /\ last.op = "setState" =>
          \A l \in Registered :
              /\ listeners[l].filter.kind \in Hashes => last.calls[l].rule = 2
              /\ listeners[l].filter.kind \in Comparators => last.calls[l].rule = 1
    /\ last.op = "subscribe" =>
          \A l \in DOMAIN last.calls : last.calls[l].rule = 0

\* the extractor was called twice although the hash did not change
C10_Witness ==
    /\ last.op = "setState"
    /\ \E l \in Registered :
          /\ listeners[l].filter.kind \in Hashes
          /\ last.calls[l] = [rule |-> 2, subscriber |-> 0]

\* C11: a listener's remembered snapshot is the state at subscribe time, and after
\* a setState evaluated its rule it is that setState's post-merge state, whether
\* or not the callback fired: every setState finds the state before it remembered
\* and is judged on (state before, state after).
C11_PreviousFollowsState ==
    [][/\ last'.op = "subscribe" =>
              listeners'[Len(listeners')].previous = state
       /\ last'.op = "setState" =>
              \A l \in Registered :
                  /\ listeners[l].previous = state
                  /\ listeners'[l].previous = state'
                  /\ last'.calls[l].subscriber =
                        IF areResultsEqual(state, state', listeners[l].filter).equal
                        THEN 0 ELSE 1]_vars

\* the comparator said "unchanged" for a second mutation that changed the state,
\* and the remembered snapshot is the new object all the same
C11_Witness ==
    /\ last.op = "setState"
    /\ state.id = 2
    /\ \E l \in Registered :
          /\ listeners[l].filter.kind = "cmpB"
          /\ last.calls[l].subscriber = 0
          /\ listeners[l].previous = state
          /\ Get(state, "a") = "A" /\ "a" \in DOMAIN last.partial

\* -------------------------------------------------------------- two mutations (SpecWindow)
\* rules whose "unchanged" verdict is transitive: unchanged(x, y) and
\* unchanged(y, z) give unchanged(x, z)
TransitiveRules == {"default", "cmpB", "hashB"}

\* listener l was silent for M1, the setState before the latest one (M2), and
\* its rule reports a change on (state before M1, state after M2)
SilentThenChanged(l) ==
    /\ last.op = "setState"
    /\ last.earlier # Null
    /\ l \in Registered
    /\ last.earlierCalls[l].rule > 0
    /\ last.earlierCalls[l].subscriber = 0
    /\ ~areResultsEqual(last.earlier, state, listeners[l].filter).equal

\* C12 as stated: for every rule, transitive or not, a listener that was silent
\* for M1 and whose rule reports a change on (state before M1, state after M2)
\* is invoked for M2.
C12_WindowAnyRule ==
    \A l \in 1..Len(listeners) :
        SilentThenChanged(l) => last.calls[l].subscriber = 1

\* C12, amended: for every rule whose "unchanged" verdict is transitive (every
\* hash/key extractor, every comparator that is an equivalence), a listener that
\* was silent for M1 and whose rule reports a change on (state before M1, state
\* after M2) is invoked for M2.
C12_WindowTransitiveRule ==
    \A l \in 1..Len(listeners) :
        (listeners[l].filter.kind \in TransitiveRules /\ SilentThenChanged(l))
            => last.calls[l].subscriber = 1

\* M1 set a alone, so the hash of b stayed; M2 set b, and the callback was invoked
C12_Witness ==
    \E l \in 1..Len(listeners) :
        /\ listeners[l].filter.kind = "hashB"
        /\ SilentThenChanged(l)
        /\ last.calls[l].subscriber = 1
        /\ Get(last.earlier, "a") # Get(last.before, "a")

\* -------------------------------------------------------------- several listeners (SpecPass)
\* the listeners whose rule the latest operation evaluated, in that order
Evaluated ==
    LET rules == SelectSeq(last.order, LAMBDA e : e[2] = "rule")
    IN  [i \in 1..Len(rules) |-> rules[i][1]]

\* a subscriber that unsubscribes another listener ran in the latest operation
UnsubscribedInPass ==
    \E l \in 1..Len(listeners) :
        listeners[l].subscriber.kind = "unsubNext" /\ last.calls[l].subscriber > 0

\* C14: within one setState the rule evaluations and subscriber calls happen in
\* the order the listeners were subscribed (the rule of a listener before its
\* subscriber), and all of them are done when setState returns: every listener
\* still registered then has been evaluated, none is left for later.
C14_SubscriptionOrder ==
    last.op = "setState" =>
        LET o == last.order
        IN  /\ \A i, j \in 1..Len(o) :
                  i < j => \/ o[i][1] < o[j][1]
                           \/ o[i][1] = o[j][1] /\ o[i][2] = "rule" /\ o[j][2] = "subscriber"
            /\ ~last.thrown => \A l \in Registered : last.calls[l].rule > 0
            /\ \A l \in 1..Len(listeners) :
                  last.calls[l].subscriber =
                      Cardinality({i \in 1..Len(o) : o[i] = <<l, "subscriber">>})

\* two listeners, the second one silent: rule and subscriber of the first, then
\* the rule of the second
C14_Witness ==
    /\ last.op = "setState"
    /\ last.order = <<(<<1, "rule">>), (<<1, "subscriber">>), (<<2, "rule">>)>>
    /\ listeners[2].filter.kind = "hashB"

\* C15: calling an Unsubber again, when its listener is no longer in the Set,
\* changes nothing: the Set (its entries and their order) and the listeners are
\* as before; and a setState right after it evaluates the listeners of the Set
\* in the Set's order.
C15_UnsubscribeIdempotent ==
    [][/\ (last'.op = "unsubscribe" /\ ~last'.had) =>
              /\ subscribers' = subscribers
              /\ listeners' = listeners
              /\ state' = state
       /\ (last.op = "unsubscribe" /\ ~last.had /\ last'.op = "setState"
              /\ ~last'.thrown /\ ~UnsubscribedInPass') =>
              Evaluated' = subscribers]_vars

\* the first listener's Unsubber was called a second time, after a mutation,
\* while the second listener is registered
C15_Witness ==
    /\ last.op = "unsubscribe"
    /\ last.target = 1
    /\ ~last.had
    /\ subscribers = <<2>>
    /\ state.id = 1

\* C16: once a listener's Unsubber has been called, no setState that begins
\* afterwards calls its rule or its subscriber: the call takes the listener out
\* of the Set, no operation puts it back, and a setState calls nothing of a
\* listener that is not in the Set when it begins (its remembered snapshot stays).
C16_UnsubscribedSilent ==
    [][/\ last'.op = "unsubscribe" => last'.target \notin Registered'
       /\ \A l \in (1..Len(listeners)) \ Registered : l \notin Registered'
       /\ last'.op = "setState" =>
              \A l \in (1..Len(listeners)) \ Registered :
                  /\ last'.calls[l] = NoCalls
                  /\ listeners'[l] = listeners[l]]_vars

\* the hash of an unsubscribed listener's rule changed and it was left alone,
\* while the other listener was called
C16_Witness ==
    /\ last.op = "setState"
    /\ \E l \in (1..Len(listeners)) \ Registered :
          /\ listeners[l].filter.kind = "hashB"
          /\ Get(listeners[l].previous, "b") # Get(state, "b")
          /\ last.calls[l] = NoCalls
    /\ \E k \in Registered : last.calls[k].subscriber = 1

\* C17 as stated: every listener registered when a setState began has its rule
\* evaluated for that mutation (the setState not throwing), also when an earlier
\* listener's subscriber calls its Unsubber during the pass.
C17_InFlightNotCancelled ==
    [][(last'.op = "setState" /\ ~last'.thrown) =>
        \A l \in Registered : last'.calls[l].rule > 0]_vars

\* C18: when a rule throws during setState, setState throws, the subscriber of
\* that listener is not called, no listener subscribed after it has its rule or
\* subscriber called for that mutation, and the rule is called once: subscribe
\* and unsubscribe call nothing, so nothing makes up for the aborted calls.
C18_RuleThrowAborts ==
    /\ last.op = "setState" =>
          /\ last.thrown <=>
                \E t \in 1..Len(listeners) :
                    listeners[t].filter.kind = "throws" /\ last.calls[t].rule > 0
          /\ \A t \in 1..Len(listeners) :
                (listeners[t].filter.kind = "throws" /\ last.calls[t].rule > 0) =>
                    /\ last.calls[t] = [rule |-> 1, subscriber |-> 0]
                    /\ \A l \in (t + 1)..Len(listeners) : last.calls[l] = NoCalls
    /\ last.op \in {"subscribe", "unsubscribe"} =>
          \A l \in DOMAIN last.calls : last.calls[l] = NoCalls

\* the first listener's rule threw in the second mutation as well; the second
\* listener, registered and without a rule, was not called
C18_Witness ==
    /\ last.op = "setState"
    /\ last.thrown
    /\ state.id = 2
    /\ subscribers = <<1, 2>>
    /\ listeners[1].filter.kind = "throws"
    /\ listeners[2].filter.kind = "default"
    /\ last.calls[2] = NoCalls

\* -------------------------------------------------------------- setState in a subscriber (SpecNested)
\* the listeners whose subscriber called setState in the latest operation
Callers ==
    {l \in 1..Len(listeners) :
        \E i \in 1..Len(last.order) : last.order[i] = <<l, "setState">>}

Entered == CHOOSE i \in 1..Len(last.order) : last.order[i][2] = "setState"
Left == CHOOSE i \in 1..Len(last.order) : last.order[i][2] = "return"

\* the listeners whose rule was evaluated within events from..to, in that order
EvaluatedWithin(from, to) ==
    LET rules == SelectSeq(SubSeq(last.order, from, to), LAMBDA e : e[2] = "rule")
    IN  [i \in 1..Len(rules) |-> rules[i][1]]

\* the registered listeners after listener c, in registration order
RegisteredAfter(c) == SelectSeq(subscribers, LAMBDA l : l > c)

\* the events of a pass in which the subscriber of listener c called setState:
\* all registered listeners between its entry and its return, then the
\* listeners after c, whose rules compare the state of the nested call with
\* itself (only the rule () => false, of a listener without rule, says changed)
NestedPassShape ==
    LET c == CHOOSE l \in Callers : TRUE
        o == last.order
    IN  /\ Callers = {c}
        /\ Entered < Left
        /\ o[Entered] = <<c, "setState">>
        /\ o[Left] = <<c, "return">>
        /\ o[Entered - 1] = <<c, "subscriber">>
        /\ EvaluatedWithin(Entered, Left) = subscribers
        /\ EvaluatedWithin(Left, Len(o)) = RegisteredAfter(c)
        /\ \A i \in (Left + 1)..Len(o) :
              /\ o[i][2] \in {"rule", "subscriber"}
              /\ o[i][2] = "subscriber" => listeners[o[i][1]].filter.kind = "default"

\* C30: a setState called by a listener's subscriber merges its partial and
\* evaluates every registered listener, in registration order, before it returns
\* into the outer pass; the outer pass then evaluates the listeners after the
\* caller, each against the state the nested call produced (which they already
\* remember, so no rule of theirs sees a change of what it looks at); the final state is
\* the outer partial merged first and the nested partial merged over it.
C30_NestedPass ==
    [][(last'.op = "setState" /\ Callers' # {}) =>
          /\ NestedPassShape'
          /\ state'.val = spread(spread(state.val, last'.partial), [b |-> "A"])
          /\ state'.id = state.id + 2]_vars

\* the first of two listeners called setState: both were evaluated inside it,
\* the second once more after it returned
C30_Witness ==
    /\ last.op = "setState"
    /\ Callers = {1}
    /\ subscribers = <<1, 2>>
    /\ listeners[2].subscriber.kind = "fn"
    /\ listeners[2].filter.kind = "hashB"
    /\ last.calls[2] = [rule |-> 4, subscriber |-> 1]
    /\ last.calls[1] = [rule |-> 2, subscriber |-> 2]
    /\ Get(state, "b") = "A"

\* -------------------------------------------------------------- exceptions (SpecThrow)
\* C32: when a rule or a subscriber throws during setState the merged state
\* stays, and every listener that was not reached remembers what it remembered
\* before; a listener is always judged against what it remembers, so the next
\* setState that reaches it reports to it a change the failed mutation made.
C32_ThrowKeepsMerge ==
    [][last'.op = "setState" =>
          /\ state'.id = state.id + 1
          /\ state'.val = spread(state.val, last'.partial)
          /\ last'.thrown =>
                \A l \in 1..Len(listeners) :
                    last'.calls[l] = NoCalls =>
                        listeners'[l].previous = listeners[l].previous
          /\ \A l \in 1..Len(listeners) :
                (listeners[l].filter.kind = "hashB" /\ last'.calls[l].rule > 0) =>
                    last'.calls[l].subscriber =
                        IF Get(listeners[l].previous, "b") # Get(state', "b")
                        THEN 1 ELSE 0]_vars

\* the mutation that set b threw before the second listener; the throwing
\* listener was unsubscribed, and a setState({}) called the second listener
C32_Witness ==
    /\ last.op = "setState"
    /\ ~last.thrown
    /\ last.partial = <<>>
    /\ state.id = 2
    /\ Get(state, "b") = "A"
    /\ subscribers = <<2>>
    /\ listeners[1].subscriber.kind = "throws"
    /\ listeners[2].filter.kind = "hashB" /\ listeners[2].subscriber.kind = "fn"
    /\ last.calls[2].subscriber = 1

\* -------------------------------------------------------------- subscribe in a subscriber (SpecLate)
\* C31: a listener subscribed by another listener's subscriber while setState
\* is notifying is not called for that mutation: its subscriber is first called,
\* at the earliest, by the next setState.
C31_LateListenerWaits ==
    [][last'.op = "setState" =>
          \A l \in (Len(listeners) + 1)..Len(listeners') :
              last'.calls[l].subscriber = 0]_vars

\* -------------------------------------------------------------- the container, again (Spec)
\* the snapshots handed out so far: getState() and what the listeners remember
Snapshots == {state} \cup {listeners[l].previous : l \in 1..Len(listeners)}

\* C13: every setState, an empty partial included, installs an object that is
\* none of the snapshots handed out before it, so no earlier snapshot has its
\* fields written and getState() after is never identical to getState() before.
C13_FreshObject ==
    [][last'.op = "setState" =>
        /\ state'.id # state.id
        /\ \A h \in Snapshots : h.id # state'.id
        /\ \A l \in (1..Len(listeners)) \ Registered :
              listeners'[l].previous = listeners[l].previous]_vars

\* an empty partial left the fields alone and still installed a new object, while
\* an unsubscribed listener keeps the snapshot of an earlier mutation
C13_Witness ==
    /\ last.op = "setState"
    /\ last.partial = <<>>
    /\ state.id = 3
    /\ \E l \in (1..Len(listeners)) \ Registered :
          /\ listeners[l].previous.id = 1
          /\ listeners[l].previous.val # state.val

\* -------------------------------------------------------------- the binding (SpecHook)
\* every effect has run and every queued value has been applied
Quiescent ==
    /\ hook.phase = "active"
    /\ hook.pending = <<>>
    /\ hook.nextId = hook.id

\* the selector closes over nothing that is missing from the dependency list
\* (or what it closes over has its first value)
ClosesOverDependencies ==
    hook.kind = "self" \/ hook.deps \/ hook.id = hook.id0

\* selector(getState()) for the selector of the latest render
Selected == selector(Scope(hook.kind, hook.id), state)

\* C2: for a binding without a custom rule whose selector closes only over its
\* dependencies, whenever all effects have run and all queued values are applied,
\* the delivered value is selector(getState()).
C2_NoUpdateLost ==
    (Quiescent /\ hook.filter = "none" /\ ClosesOverDependencies)
        => hook.currentResult = Selected

\* quiescent after a mutation in the gap, a dependency change and later mutations
C2_Witness ==
    /\ Quiescent
    /\ hook.filter = "none" /\ hook.kind = "byId" /\ hook.deps
    /\ hook.id # hook.id0
    /\ hook.gap > 0
    /\ state.id > hook.mountedAt
    /\ hook.currentResult = Prim("A")

\* C3: when setState calls fall between the initial computation and the
\* subscription, the commit that subscribes re-derives: selector(getState()) is
\* queued by it, and is the delivered value once applied, with no further mutation.
C3_GapCaughtUp ==
    /\ (last.op = "commitMount" /\ hook.gap > 0) =>
          /\ hook.pending # <<>>
          /\ hook.pending[Len(hook.pending)] = Selected
    /\ (Quiescent /\ ClosesOverDependencies /\ hook.gap > 0
            /\ state.id = hook.mountedAt)
          => hook.currentResult = Selected

\* a binding with a custom rule delivers the value set in the gap, no mutation since
C3_Witness ==
    /\ Quiescent
    /\ hook.filter = "hashV" /\ hook.kind = "byId"
    /\ hook.gap > 0
    /\ state.id = hook.mountedAt
    /\ hook.renders = 2
    /\ hook.currentResult = Prim("A")

\* C4: the value returned by the first render is selector applied to the
\* Container state at that moment.
C4_InitialValue ==
    [][last'.op = "firstRender" =>
        hook'.currentResult = selector(Scope(hook'.kind, hook'.id), state)]_vars

\* a binding created after mutations, showing the current value of its field
C4_Witness ==
    /\ hook.phase = "rendered"
    /\ hook.gap = 0
    /\ state.id > 0
    /\ hook.kind = "byId" /\ hook.id = "b"
    /\ state.val = [a |-> "null", b |-> "A"]
    /\ hook.currentResult = Prim("A")

\* C5: at activation the catch-up pushes exactly once when the Container's
\* snapshot is not the one remembered at the initial computation (however many
\* mutations fell in the gap) and not at all when it is; it never fires later.
C5_CatchUpOnce ==
    /\ hook.phase \in {"active", "updating", "resubscribing"} =>
          hook.catchUps = IF hook.gap > 0 THEN 1 ELSE 0
    /\ last.op = "commitMount" =>
          last.pushes = IF hook.gap > 0 THEN 1 ELSE 0

\* two mutations in the gap, one catch-up; later a mutation and a dependency change
C5_Witness ==
    /\ hook.phase = "active"
    /\ hook.gap = 2
    /\ hook.catchUps = 1
    /\ hook.deps /\ hook.id # hook.id0
    /\ last.op = "commitUpdate"
    /\ state.id > hook.mountedAt

\* C6: for an active binding without a custom rule, a setState pushes a value iff
\* the selector's value on the state before is not identical to its value on the
\* state after. (hook.scope is the selector closure the binding subscribed with.)
C6_PushIffSelectedChanged ==
    [][(last'.op = "setState" /\ hook.phase = "active" /\ hook.filter = "none") =>
        last'.pushes =
            IF selector(hook.scope, state) # selector(hook.scope, state')
            THEN 1 ELSE 0]_vars

\* a partial that sets fields (the selected one to its old value) pushed nothing
C6_Witness ==
    /\ last.op = "setState"
    /\ hook.phase = "active" /\ hook.filter = "none" /\ hook.kind = "byId"
    /\ DOMAIN last.partial = Fields
    /\ last.pushes = 0

\* C23: when a render changes an entry of the dependency list, the commit of
\* that render unsubscribes the old listener and subscribes a new one whose rule
\* and updateValue use the selector of that render, and queues the value of that
\* selector on the state as it is, changed or not; a later setState pushes only
\* when that selector's value changed, and pushes that selector's value.
C23_DependencyChange ==
    [][LET new == Scope(hook.kind, hook.id)
       IN  /\ last'.op = "commitCleanup" =>
                 /\ hook.listener \in Registered
                 /\ Registered' = Registered \ {hook.listener}
           /\ last'.op = "commitUpdate" =>
                 /\ hook'.listener \notin Registered
                 /\ Registered' = Registered \cup {hook'.listener}
                 /\ listeners'[hook'.listener].filter.key = new
                 /\ listeners'[hook'.listener].filter.inner = hook.filter
                 /\ listeners'[hook'.listener].subscriber =
                        [kind |-> "updateValue", scope |-> new]
                 /\ state' = state
                 /\ Len(hook'.pending) = Len(hook.pending) + 1
                 /\ hook'.pending[Len(hook'.pending)] = selector(new, state)
           /\ (last'.op = "setState" /\ hook.phase = "active" /\ hook.deps) =>
                 /\ hook.scope = new
                 /\ last'.pushes > 0 =>
                        /\ selector(new, state) # selector(new, state')
                        /\ hook'.pending[Len(hook'.pending)] = selector(new, state')]_vars

\* the selector went from field a to field b with no mutation since the first
\* render: the commit queued the value of b
C23_Witness ==
    /\ last.op = "commitUpdate"
    /\ hook.kind = "byId" /\ hook.deps
    /\ hook.id0 = "a" /\ hook.id = "b"
    /\ state.id = 0
    /\ state.val = [a |-> "null", b |-> "A"]
    /\ hook.currentResult = Prim("null")
    /\ hook.pending = <<Prim("A")>>

\* C22: when the selector yields a function, the binding delivers that very
\* function, at the first render and after every update, and React is never made
\* to call a function of the state: no handler is called by a dispatch that
\* swaps it, nor by the renders that follow.
C22_CallablePassthrough ==
    /\ hook.invoked = 0
    /\ hook.phase # "unbound" =>
          hook.currentResult \in {Prim(v) : v \in Values \cup Handlers}
    /\ hook.phase = "rendered" /\ hook.gap = 0 => hook.currentResult = Selected
    /\ (Quiescent /\ ClosesOverDependencies) => hook.currentResult = Selected

\* the handler was swapped after mount and the binding delivers the second one
C22_Witness ==
    /\ Quiescent
    /\ last.op = "render"
    /\ hook.id = "a" /\ hook.id0 = "a"
    /\ state.id = 1 /\ hook.mountedAt = 0
    /\ Get(state, "a") = "fn2"
    /\ hook.currentResult = Prim("fn2")

\* -------------------------------------------------------------- the Provider (SpecTree)
\* C27: the Provider keeps, for as long as it is mounted, the manager its first
\* render chose (made from the first value, or the first manager given): no
\* later render replaces it, whatever value or manager that render is given.
C27_OneManager ==
    [][hook.provider.phase # "none" =>
          /\ hook.provider.manager = 0
          /\ hook'.provider.manager = hook.provider.manager]_vars

\* the Provider was given a second other manager, and holds the first
C27_Witness ==
    /\ last.op = "providerUpdate"
    /\ hook.provider.mode = "manager"
    /\ hook.provider.prop.n = 2
    /\ hook.provider.manager = 0
    /\ hook.phase = "active"

\* C21: a binding's custom rule that is a binary comparator is called with the
\* previously selected value first and the newly selected value second: for the
\* comparator (before, after) => before === null, a dispatch that changes the
\* selected value pushes iff the value selected before it was not null.
C21_PreviousThenCurrent ==
    [][(last'.op = "dispatch" /\ hook.phase = "active" /\ hook.filter = "cmpWasNull") =>
          LET previous == selector(hook.scope, state)
              current == selector(hook.scope, state')
          IN  previous # current =>
                 last'.pushes = IF previous.prim = "null" THEN 0 ELSE 1]_vars

\* C28: when the binding's component is removed its listener is unsubscribed;
\* from then on no setState evaluates a rule of the binding, calls its
\* updateValue or queues a value for it.
C28_UnmountUnsubscribes ==
    [][/\ last'.op = "unmount" =>
             /\ hook.listener \in Registered
             /\ Registered' = Registered \ {hook.listener}
       /\ hook.phase = "unmounted" =>
             /\ hook'.phase = "unmounted"
             /\ Registered' = {}
             /\ hook'.pending = hook.pending
             /\ hook'.currentResult = hook.currentResult
             /\ last'.pushes = 0 /\ last'.spied = 0
             /\ \A l \in DOMAIN last'.calls : last'.calls[l] = NoCalls]_vars

\* a dispatch after the unmount changed the field the binding had selected
C28_Witness ==
    /\ hook.phase = "unmounted"
    /\ last.op = "dispatch"
    /\ last.partial = [b |-> "A"]
    /\ state.id = 1
    /\ hook.currentResult = Prim("null")
    /\ hook.pending = <<>>
    /\ subscribers = <<>>

\* C24: a dispatch given a function calls it once with the state as it is at
\* the time of the dispatch and hands what it returns to setState: the fields it
\* returns are merged, the others keep their values; the function of a second
\* dispatch therefore sees the result of the first.
C24_FunctionalDispatch ==
    [][last'.op = "dispatch" =>
          /\ state'.id = state.id + 1
          /\ CASE last'.update.kind = "partial" ->
                     state'.val = spread(state.val, last'.update.partial)
                [] last'.update.name = "toggleB" ->
                     /\ state'.val["a"] = state.val["a"]
                     /\ state'.val["b"] = IF state.val["b"] = "null" THEN "A" ELSE "null"
                [] last'.update.name = "copyBtoA" ->
                     /\ state'.val["a"] = state.val["b"]
                     /\ state'.val["b"] = state.val["b"]]_vars

\* ({ b }) => ({ b: toggled }) and then ({ b }) => ({ a: b }), from a: null, b: null:
\* the second function copied the b the first one had set
C24_Witness ==
    /\ last.op = "dispatch"
    /\ last.earlier.name = "toggleB"
    /\ last.update.name = "copyBtoA"
    /\ state = [id |-> 2, val |-> [a |-> "A", b |-> "A"]]
    /\ hook.provider.sets = 0

\* C25: without ignorePropsChanges, when the Provider is rendered after mount
\* with another value object (or another manager), the commit of that render
\* merges the fields of that object into the state with one setState: an active
\* binding without custom rule whose selected value changed is pushed the value
\* selected from the new state, and delivers it once rendered.
C25_PropsChangeMerged ==
    [][/\ (~hook.provider.ignorePropsChanges /\ last'.op = "providerUpdate") =>
             /\ state'.id = state.id + 1
             /\ state'.val = spread(state.val, hook'.provider.prop.val)
             /\ hook'.provider.sets = hook.provider.sets + 1
             /\ (hook.phase = "active" /\ hook.filter = "none") =>
                    hook'.pending =
                        IF Get(state, "b") # hook'.provider.prop.val["b"]
                        THEN Append(hook.pending, Prim(hook'.provider.prop.val["b"]))
                        ELSE hook.pending
       /\ (Quiescent' /\ hook'.filter = "none") => hook'.currentResult = Selected']_vars

\* the value object given after mount has another b: the binding was pushed it
C25_Witness ==
    /\ last.op = "providerUpdate"
    /\ ~hook.provider.ignorePropsChanges
    /\ hook.provider.mode = "value"
    /\ hook.phase = "active" /\ hook.filter = "none"
    /\ state = [id |-> 1, val |-> [a |-> "null", b |-> "A"]]
    /\ hook.currentResult = Prim("null")
    /\ hook.pending = <<Prim("A")>>

\* C26: with ignorePropsChanges the Provider never calls setState: neither its
\* mount nor a render with another value (or manager) changes the state or
\* reaches a listener.
C26_PropsIgnored ==
    [][hook'.provider.ignorePropsChanges =>
          /\ hook'.provider.sets = 0
          /\ last'.op \in {"Provider", "providerMount", "providerUpdate"} =>
                /\ state' = state
                /\ hook'.pending = hook.pending
                /\ \A l \in DOMAIN last'.calls : last'.calls[l] = NoCalls]_vars

\* the Provider was given a value with another b after a dispatch: the state
\* is the one of the dispatch
C26_Witness ==
    /\ last.op = "providerUpdate"
    /\ hook.provider.ignorePropsChanges
    /\ hook.provider.mode = "value"
    /\ hook.provider.prop = [n |-> 1, val |-> [a |-> "null", b |-> "A"]]
    /\ state = [id |-> 1, val |-> [a |-> "A", b |-> "null"]]
    /\ hook.phase = "active"

\* C33: without ignorePropsChanges and with a value prop, what a descendant
\* dispatched before the Provider's own mount effect ran (from a layout effect
\* of the same commit) is still in the state after that effect: the effect
\* does not write the fields of the initial value back.
C33_MountKeepsDispatch ==
    [][(last'.op = "providerMount"
            /\ ~hook.provider.ignorePropsChanges /\ hook.provider.mode = "value") =>
          state'.val = state.val]_vars

\* C34: a binding given no dependency list uses the selector closure of its
\* first render for as long as it is mounted: a render in which what the
\* selector closes over has changed leaves the delivered value and the listener
\* as they are, and a later setState is judged and its value derived by the
\* first closure.
C34_FirstClosureKept ==
    [][(~hook.deps /\ hook.phase = "active") =>
          LET first == Scope(hook.kind, hook.id0)
          IN  /\ hook.scope = first /\ hook'.scope = first
              /\ hook'.phase = "active" /\ hook'.listener = hook.listener
              /\ listeners'[hook.listener].filter.key = first
              /\ listeners'[hook.listener].subscriber.scope = first
              /\ (last'.op = "render" /\ hook.pending = <<>>) =>
                     hook'.currentResult = hook.currentResult
              /\ (last'.op = "setState" /\ hook.filter = "none") =>
                     hook'.pending =
                        IF selector(first, state) # selector(first, state')
                        THEN Append(hook.pending, selector(first, state'))
                        ELSE hook.pending]_vars

\* the component's id went from a to b, not listed as dependency; a setState
\* of both fields pushed the value of a
C34_Witness ==
    /\ ~hook.deps /\ hook.kind = "byId" /\ hook.filter = "none"
    /\ hook.phase = "active"
    /\ hook.id0 = "a" /\ hook.id = "b"
    /\ last.op = "setState"
    /\ state.val = [a |-> "A", b |-> "null"]
    /\ hook.pending = <<Prim("A")>>
    /\ hook.currentResult = Prim("null")

\* C35: for a binding with a custom rule (a hash/key extractor here), a value
\* is pushed only when the rule tells it apart from the value handed over last
\* (the last one queued, or the delivered one): in a setState, in the catch-up
\* at mount and in the re-derivation after a dependency change.
C35_NoRedundantPush ==
    [][(hook.filter # "none" /\ Len(hook'.pending) > Len(hook.pending)) =>
          LET rule == UserFilter(hook.filter)
              before == IF hook.pending = <<>> THEN hook.currentResult
                        ELSE hook.pending[Len(hook.pending)]
              pushed == hook'.pending[Len(hook.pending) + 1]
          IN  HashOf(rule, before) # HashOf(rule, pushed)]_vars

\* -------------------------------------------------------------- mounts and unmounts (SpecLife)
\* the registered listeners of the binding, and those of the application
Owned == {l \in Registered : listeners[l].subscriber.kind = "updateValue"}
Others == {l \in Registered : listeners[l].subscriber.kind = "fn"}

\* C36: a mounted binding has exactly one listener registered, and none while
\* it is not subscribed: between the cleanup and the re-subscription of a
\* dependency change the old one is already gone; the effects and the unmount of
\* the binding never touch another listener, so after mounts, dependency
\* changes and unmounts the container has the listeners the application put.
C36_OneListener ==
    [][/\ Registered' = Owned' \cup Others'
       /\ Owned' = IF hook'.phase \in {"active", "updating"}
                   THEN {hook'.listener} ELSE {}
       /\ last'.op \in {"firstRender", "commitMount", "setId", "render", "commitCleanup",
                         "commitUpdate", "unmount", "mountAnother", "setState"} =>
             Others' = Others]_vars

\* the binding was mounted beside a listener of the application and unmounted
\* after a mutation: the application's listener is the only one left
C36_Witness ==
    /\ hook.phase = "unmounted"
    /\ last.op = "unmount"
    /\ hook.renders = 1
    /\ state.id > 0
    /\ Len(listeners) = 1
    /\ Registered = {1}
    /\ listeners[1].subscriber.kind = "fn"

\* -------------------------------------------------------------- normalizeArgs (SpecArgs)
\* the rule and the dependency list among the arguments, whatever their place
RuleGiven(args) == {args[i].filter : i \in {j \in 2..Len(args) : args[j].tag = "function"}}
ListGiven(args) == {args[i].deps : i \in {j \in 2..Len(args) : args[j].tag = "array"}}
\* the same call with rule and dependency list in the other order
Flip(args) == IF Len(args) = 3 THEN <<args[1], args[3], args[2]>> ELSE args

\* C40: the binding made by useExtendedState(...args) has the rule that is
\* among the arguments (no rule when there is none) and the dependency list
\* that is among them (the empty list when there is none), the call with rule
\* and list in the other order yields the same configuration, and this
\* configuration stays through every mutation and dependency change.
C40_ArgumentOrder ==
    hook.args # <<>> =>
        /\ hook.filter \in (IF RuleGiven(hook.args) = {} THEN {"none"}
                             ELSE RuleGiven(hook.args))
        /\ hook.deps \in (IF ListGiven(hook.args) = {} THEN {FALSE}
                           ELSE ListGiven(hook.args))
        /\ hook.kind = hook.args[1].kind /\ hook.id0 = hook.args[1].id
        /\ normalizeArgs(Flip(hook.args)) = normalizeArgs(hook.args)

\* a binding called as (selector, [id], rule) is active after a mutation and
\* a change of id
C40_Witness ==
    /\ hook.args = <<selectorArg("a"), listArg(TRUE), ruleArg("hashV")>>
    /\ hook.phase = "active" /\ hook.id # hook.id0 /\ state.id > 0
    /\ hook.filter = "hashV" /\ hook.deps

\* -------------------------------------------------------------- createDeepState (SpecDeep)
\* C37: a setState between the first render of a useDeepState binding and its
\* subscription is not lost: once subscribed, with nothing queued and the
\* Provider's prop the same object as at the first render, the binding (of a
\* plain value, without custom rule) delivers selector(getState()).
C37_DeepGapCaughtUp ==
    (hook.phase = "active" /\ hook.pending = <<>> /\ hook.filter = "none"
        /\ hook.id = "b" /\ hook.provider.prop.n = 0)
        => hook.currentResult = selector(hook.scope, state)

\* C38: when the selector of a useDeepState binding yields a function, the
\* first render delivers that function and React is never made to call a
\* function of the state, at the first render or by an update.
C38_DeepCallablePassthrough ==
    /\ hook.invoked = 0
    /\ (hook.phase = "rendered" /\ hook.gap = 0) =>
          hook.currentResult = selector(hook.scope, state)

\* C39: an active useDeepState binding is subscribed to the manager the
\* dispatcher of its site writes to, also after the Provider was given another
\* object as initial: a dispatch that changes the selected field of a binding
\* without custom rule pushes a value to it.
C39_DeepSameManager ==
    [][/\ hook'.phase = "active" => hook'.subscribedTo = hook'.provider.manager
       /\ (last'.op = "setState" /\ hook.phase = "active" /\ hook.filter = "none"
              /\ selector(hook.scope, state) # selector(hook.scope, state')) =>
             Len(hook'.pending) = Len(hook.pending) + 1]_vars

\* C19: a render that calls a read hook or a dispatcher hook with no Provider
\* above it throws the Error 'Must be used with-in a Provider' in that render:
\* no value is returned, no listener is registered and no setState is made, in
\* that render or later.
C19_UnboundAccess ==
    [][/\ (hook.context = "null"
              /\ last'.op \in {"firstRender"} \cup ExtendedHooks \cup DeepHooks) =>
              /\ hook'.phase = "failed"
              /\ hook'.error = "Must be used with-in a Provider"
              /\ hook'.currentResult = NoValue
              /\ hook'.listener = 0
              /\ <<state, subscribers, listeners>>' = <<state, subscribers, listeners>>
       /\ hook.phase = "failed" =>
              /\ hook'.phase = "failed"
              /\ hook'.currentResult = NoValue
              /\ <<subscribers, listeners>>' = <<subscribers, listeners>>]_vars

\* useExtendedState threw in a tree without Provider, after mutations of a
\* manager made elsewhere
C19_Witness ==
    /\ hook.context = "null"
    /\ hook.phase = "failed"
    /\ hook.error = "Must be used with-in a Provider"
    /\ last.op = "useExtendedState"
    /\ state.id = 2
    /\ listeners = <<>>

\* C20: for an active binding with a custom rule, a setState calls the rule only
\* when selector(state before) and selector(state after) are not identical: when
\* they are identical the rule is not called and nothing is pushed; when they
\* differ the rule (a hash/key extractor here) is called on both and a value is
\* pushed iff the two hashes differ.
C20_ShortCircuit ==
    [][(last'.op = "setState" /\ hook.phase = "active" /\ hook.filter # "none") =>
        LET before == selector(hook.scope, state)
            after == selector(hook.scope, state')
            rule == UserFilter(hook.filter)
        IN  IF before = after
            THEN last'.spied = 0 /\ last'.pushes = 0
            ELSE /\ last'.spied = 2
                 /\ last'.pushes = IF HashOf(rule, before) # HashOf(rule, after)
                                   THEN 1 ELSE 0]_vars

\* the selected state is a new object, of the same type as the old one:
\* (v) => typeof v was called twice and nothing was pushed
C20_Witness ==
    /\ last.op = "setState"
    /\ hook.phase = "active" /\ hook.kind = "self" /\ hook.filter = "hashT"
    /\ "a" \in DOMAIN last.partial
    /\ last.spied = 2
    /\ last.pushes = 0

====
